---- MODULE Spec2Model ----
(***************************************************************************)
(* Task-management API: users with revocable JWT sessions (routes/auth.js, *)
(* middleware/auth.js, models/User.js) and owner-scoped task records       *)
(* (routes/tasks.js, models/task.js).  The store is the two MongoDB        *)
(* collections; each request handler is one action; the auth handlers are  *)
(* also modelled split at their awaits, for interleaved requests.          *)
(***************************************************************************)
EXTENDS Integers, Naturals, Sequences, FiniteSets, TLC

VARIABLES
  users,      \* the User collection, in insertion order; _id = position
  tasks,      \* the Task collection, in insertion (natural) order
  nextTaskId, \* number of Task _ids handed out so far (ids are never reused)
  now,        \* Date.now(), in milliseconds
  ticks,      \* how many times the clock was advanced (bounded)
  pending,    \* requests suspended at an await between their read and a save
  issued,     \* tokens returned to clients in 2xx register/login responses
  loggedOut,  \* tokens whose logout request answered 200
  last        \* the last request and its response

vars == <<users, tasks, nextTaskId, now, ticks, pending, issued, loggedOut, last>>

-----------------------------------------------------------------------------
(* Bounds of the model *)

MaxSessions == 2   \* entries in one user's tokens array
MaxTaskIds == 2    \* tasks ever created
MaxTicks == 1      \* clock advances
MaxPending == 2    \* requests in flight
MaxListTasks == 15 \* tasks in the collection that GET /api/tasks is applied to

(* Program constants *)

ExpiresInSec == 604800     \* expiresIn: '7d'
MsPerSec == 1000           \* Date.now() is in ms, the iat/exp claims in s
MinPasswordLen == 6
MinNameLen == 2
MaxNameLen == 50
MaxTitleLen == 100
DefaultPage == 1
DefaultLimit == 10

-----------------------------------------------------------------------------
(* Optional values: <<>> is "not supplied", <<v>> is v *)

None == <<>>
Some(v) == <<v>>
IsSome(o) == Len(o) = 1
Val(o) == o[1]

(* Length of the strings the requests draw from (the model's strings are   *)
(* names for request values; "L101" names a 101-character string).         *)
StrLen(s) ==
  CASE s = "" -> 0
    [] s = "A" -> 1
    [] s = "Al" -> 2
    [] s = "abc" -> 3
    [] s = "secret1" -> 7
    [] s = "secret2" -> 7
    [] s = "L101" -> 101
    [] OTHER -> 5

(* String.prototype.toLowerCase on the emails the requests draw from *)
Lower(e) ==
  CASE e = "A@x.com" -> "a@x.com"
    [] e = "B@x.com" -> "b@x.com"
    [] OTHER -> e

(* Joi.string().email(): a well-formed address *)
JoiEmailOk(e) == e \in {"a@x.com", "A@x.com", "b@x.com", "B@x.com", "c@x.info"}

(* userSchema.email.match: the last label must have 2 or 3 characters *)
SchemaEmailOk(e) == e \in {"a@x.com", "b@x.com"}

-----------------------------------------------------------------------------
(* Responses *)

NullTok == [uid |-> 0, email |-> "", role |-> "", iat |-> 0, exp |-> 0, sig |-> "none"]
NoHeader == [present |-> FALSE, prefix |-> FALSE, kind |-> "none", tok |-> NullTok]

NullBody == [title |-> None, description |-> None, status |-> None,
             priority |-> None, dueDate |-> None]

\* op: the route; status/error: the response; handled: the route handler ran
\* (for a protected route: auth called next()).  The list and stats routes
\* add their payload.  tok: the token of a register/login response body, or
\* req.token of a logout; hdr: the Authorization header of a request to a
\* protected route; uid: req.user._id; id: req.params.id; body: req.body of a
\* task request.
Resp(op, status, error) ==
  [op |-> op, status |-> status, error |-> error, handled |-> TRUE,
   tok |-> NullTok, hdr |-> NoHeader, uid |-> 0, id |-> 0, body |-> NullBody]

(* middleware/errorHandler.js is not part of the sources; the error taxonomy *)
(* of the specification decides the status of an error passed to next().     *)
errorHandler(op, err) ==
  CASE err = "ValidationError" -> Resp(op, 400, "ValidationError")
    [] err = "DuplicateKey" -> Resp(op, 400, "DuplicateEmail")
    [] OTHER -> Resp(op, 500, "InternalError")

-----------------------------------------------------------------------------
(* models/User.js *)

\* bcrypt.hash(password, salt): the salt is kept in the hash
Hash(pw, salt) == [salt |-> salt, pw |-> pw]

Salts == {"s1"}

\* this.password as assigned from the request: a plaintext, not yet hashed
Plain(pw) == [salt |-> "", pw |-> pw]

\* the string that this.password holds: the plaintext, or the bcrypt string
PasswordString(field) == IF field.salt = "" THEN field.pw ELSE "$2a$12$"

preSaveMut(field, isModified, salt) == Hash(PasswordString(field), salt)

\* userSchema.pre('save'): this.password after the hook
preSave(field, isModified, salt) ==
  IF ~isModified THEN field ELSE Hash(PasswordString(field), salt)

\* userSchema.methods.comparePassword
comparePassword(user, candidate) == user.password.pw = candidate

\* jwt.sign(payload, secret, {expiresIn: '7d'}): HS256 is deterministic, so the
\* token string is a function of the payload and of the second of issuance
Sign(user, t) ==
  [uid |-> user.id, email |-> user.email, role |-> user.role,
   iat |-> t \div MsPerSec, exp |-> (t \div MsPerSec) + ExpiresInSec, sig |-> "good"]

\* userSchema.methods.generateAuthToken: the tokens array after the save
generateAuthToken(user, t) == Append(user.tokens, Sign(user, t))

\* this.save() of a loaded user after this.tokens was assigned: the record
\* that is written; the handlers never assign password, so the hook finds
\* isModified('password') false
SaveTokens(user, toks, salt) ==
  [user EXCEPT !.tokens = toks, !.password = preSave(@, FALSE, salt)]

\* User.findOne({ email }): the lowercase setter also runs on the filter
FindByEmail(e) ==
  IF \E i \in 1..Len(users) : users[i].email = Lower(e)
    THEN CHOOSE i \in 1..Len(users) : users[i].email = Lower(e)
    ELSE 0

UniqueIndexAllowsMut(e) == TRUE

\* the unique index on email lets an insert through
UniqueIndexAllows(e) == \A i \in 1..Len(users) : users[i].email # e

\* userSchema validation run by save()
UserSchemaOk(name, email, password) ==
  /\ StrLen(name) >= 1 /\ StrLen(name) <= MaxNameLen
  /\ SchemaEmailOk(email)
  /\ StrLen(password) >= MinPasswordLen

-----------------------------------------------------------------------------
(* middleware/auth.js *)

Bearer(tok) == [present |-> TRUE, prefix |-> TRUE, kind |-> "jwt", tok |-> tok]
Raw(tok) == [present |-> TRUE, prefix |-> FALSE, kind |-> "jwt", tok |-> tok]
EmptyHeader == [present |-> TRUE, prefix |-> FALSE, kind |-> "empty", tok |-> NullTok]
JunkHeader == [present |-> TRUE, prefix |-> TRUE, kind |-> "junk", tok |-> NullTok]

\* req.header('Authorization')?.replace('Bearer ', ''): falsy when the header
\* is absent or empty; with or without the prefix the credential is what remains
HasToken(h) == h.present /\ h.kind # "empty"

jwtVerifyMut(h, t) ==
  /\ h.kind = "jwt"
  /\ h.tok.sig = "good"

\* jwt.verify(token, secret): throws on a malformed token, a bad signature or
\* when floor(Date.now()/1000) >= exp
jwtVerify(h, t) ==
  /\ h.kind = "jwt"
  /\ h.tok.sig = "good"
  /\ (t \div MsPerSec) < h.tok.exp

\* User.findOne({ _id: decoded._id, 'tokens.token': token })
FindByIdAndToken(us, tok) ==
  IF \E i \in 1..Len(us) :
       us[i].id = tok.uid /\ \E k \in 1..Len(us[i].tokens) : us[i].tokens[k] = tok
    THEN tok.uid
    ELSE 0

\* the user auth attaches to the request, 0 when it answers 401
authUser(us, h, t) ==
  IF ~HasToken(h) THEN 0
  ELSE IF ~jwtVerify(h, t) THEN 0
  ELSE FindByIdAndToken(us, h.tok)

authError(h) ==
  IF ~HasToken(h) THEN "No token, authorization denied" ELSE "Token is not valid"

\* the 401 response of auth: the handler is not called
Reject(op, h) ==
  [Resp(op, 401, authError(h)) EXCEPT !.handled = FALSE, !.hdr = h]

\* a token with a valid signature for an _id that is in no user record
OrphanTok == [uid |-> 9, email |-> "z@x.com", role |-> "user", iat |-> 0,
              exp |-> ExpiresInSec, sig |-> "good"]

Tamper(tok) == [tok EXCEPT !.sig = "bad"]

\* the Authorization headers a client can send
Headers ==
  {NoHeader, EmptyHeader, JunkHeader, Bearer(OrphanTok)}
    \cup {Bearer(tok) : tok \in issued}
    \cup {Raw(tok) : tok \in issued}
    \cup {Bearer(Tamper(tok)) : tok \in issued}

-----------------------------------------------------------------------------
(* routes/auth.js *)

Names == {"Al"}
EmailInputs == {"a@x.com", "A@x.com", "b@x.com", "c@x.info", "bad"}
PasswordInputs == {"secret1", "secret2", ""}
RegisterPasswords == {"secret1", "abc"}

\* registerSchema.validate: the first failing key, "" when the body is valid
registerSchema(name, email, password) ==
  IF StrLen(name) < MinNameLen \/ StrLen(name) > MaxNameLen THEN "name"
  ELSE IF ~JoiEmailOk(email) THEN "email"
  ELSE IF StrLen(password) < MinPasswordLen THEN "password"
  ELSE ""

\* loginSchema.validate
loginSchema(email, password) ==
  IF ~JoiEmailOk(email) THEN "email"
  ELSE IF StrLen(password) = 0 THEN "password"
  ELSE ""

\* new User({ name, email, password }), its password hashed by the pre-save hook
NewUser(name, email, password, salt) ==
  [id |-> Len(users) + 1, name |-> name, email |-> Lower(email),
   password |-> preSave(Plain(password), TRUE, salt), role |-> "user",
   tokens |-> <<>>]

\* POST /register before the await of User.findOne returns: the 400 response,
\* or "" when the handler goes on to create the user
RegisterReject(name, email, password) ==
  IF registerSchema(name, email, password) # ""
    THEN registerSchema(name, email, password)
  ELSE IF FindByEmail(email) # 0 THEN "User already exists with this email"
  ELSE ""

\* POST /register from user.save() to the response
SaveAndRespond(r, salt) ==
  IF ~UserSchemaOk(r.name, Lower(r.email), r.password)
    THEN /\ last' = errorHandler("register", "ValidationError")
         /\ UNCHANGED <<users, issued>>
  ELSE IF ~UniqueIndexAllows(Lower(r.email))
    THEN /\ last' = errorHandler("register", "DuplicateKey")
         /\ UNCHANGED <<users, issued>>
  ELSE LET user == NewUser(r.name, r.email, r.password, salt)
           toks == generateAuthToken(user, now)
       IN /\ users' = Append(users, SaveTokens(user, toks, salt))
          /\ issued' = issued \cup {toks[Len(toks)]}
          /\ last' = [Resp("register", 201, "") EXCEPT !.tok = toks[Len(toks)]]

\* POST /register, no other request running between its awaits
Register(name, email, password, salt) ==
  /\ IF RegisterReject(name, email, password) # ""
       THEN /\ last' = Resp("register", 400, RegisterReject(name, email, password))
            /\ UNCHANGED <<users, issued>>
       ELSE SaveAndRespond([name |-> name, email |-> email, password |-> password],
                           salt)
  /\ UNCHANGED <<tasks, nextTaskId, now, ticks, pending, loggedOut>>

\* POST /register up to the await of User.findOne (interleaved requests)
RegisterCheck(name, email, password) ==
  /\ IF RegisterReject(name, email, password) # ""
       THEN /\ last' = Resp("register", 400, RegisterReject(name, email, password))
            /\ UNCHANGED pending
       ELSE /\ Cardinality(pending) < MaxPending
            /\ pending' = pending \cup {[name |-> name, email |-> email,
                                         password |-> password]}
            /\ last' = Resp("registerCheck", 0, "")
  /\ UNCHANGED <<users, tasks, nextTaskId, now, ticks, issued, loggedOut>>

\* POST /register resumed after the await (interleaved requests)
RegisterSave(r, salt) ==
  /\ r \in pending
  /\ pending' = pending \ {r}
  /\ SaveAndRespond(r, salt)
  /\ UNCHANGED <<tasks, nextTaskId, now, ticks, loggedOut>>

UnknownEmailRespMut == Resp("login", 404, "User not found")

\* the response of POST /login when no user has the email
UnknownEmailResp == Resp("login", 401, "Invalid credentials")

\* the response of POST /login when the password does not match
WrongPasswordResp == Resp("login", 401, "Invalid credentials")

\* the response of POST /login
LoginResponse(email, password) ==
  IF loginSchema(email, password) # ""
    THEN Resp("login", 400, loginSchema(email, password))
  ELSE IF FindByEmail(email) = 0 THEN UnknownEmailResp
  ELSE IF ~comparePassword(users[FindByEmail(email)], password)
    THEN WrongPasswordResp
  ELSE [Resp("login", 200, "") EXCEPT !.tok = Sign(users[FindByEmail(email)], now)]

\* POST /login
Login(email, password) ==
  /\ last' = LoginResponse(email, password)
  /\ IF LoginResponse(email, password).status # 200
       THEN UNCHANGED <<users, issued>>
       ELSE LET i == FindByEmail(email)
                toks == generateAuthToken(users[i], now)
            IN /\ Len(users[i].tokens) < MaxSessions
               /\ \E salt \in Salts :
                    users' = [users EXCEPT ![i] = SaveTokens(@, toks, salt)]
               /\ issued' = issued \cup {toks[Len(toks)]}
  /\ UNCHANGED <<tasks, nextTaskId, now, ticks, pending, loggedOut>>

\* req.user.tokens.filter(tokenObj => tokenObj.token !== req.token)
FilterTokens(toks, tok) == SelectSeq(toks, LAMBDA x : x # tok)

\* GET /me
Me(h) ==
  /\ LET u == authUser(users, h, now) IN
       last' = IF u = 0 THEN Reject("me", h)
               ELSE [Resp("me", 200, "") EXCEPT !.hdr = h, !.uid = u]
  /\ UNCHANGED <<users, tasks, nextTaskId, now, ticks, pending, issued, loggedOut>>

\* POST /logout
Logout(h) ==
  /\ LET u == authUser(users, h, now) IN
       IF u = 0
         THEN /\ last' = Reject("logout", h)
              /\ UNCHANGED <<users, loggedOut>>
         ELSE /\ \E salt \in Salts :
                   users' = [users EXCEPT ![u] =
                               SaveTokens(@, FilterTokens(@.tokens, h.tok), salt)]
              /\ loggedOut' = loggedOut \cup {h.tok}
              /\ last' = [Resp("logout", 200, "") EXCEPT !.tok = h.tok, !.hdr = h, !.uid = u]
  /\ UNCHANGED <<tasks, nextTaskId, now, ticks, pending, issued>>

-----------------------------------------------------------------------------
(* routes/auth.js, one await at a time.  A handler holds the document it    *)
(* read; user.save() after an assignment to this.tokens sends                *)
(* $set {tokens}, $inc {__v} with the filter {_id, __v: the version read}    *)
(* (the schema keeps the default versionKey), so it is refused with a        *)
(* VersionError once another save of the same user has been written.        *)

\* a suspended register request that has not yet called user.save()
IsReg(r) == "name" \in DOMAIN r

\* the request numbers of the suspended handlers that hold a document
Rids(P) == {r.rid : r \in {x \in P : ~IsReg(x)}}

\* a handler suspended with the document it holds: route is the handler, op
\* the save it is about to make, tokens the array of the document, tok
\* req.token, stale whether the stored __v has moved on since the read
Flight(P, op, route, uid, tokens, tok) ==
  [rid |-> CHOOSE n \in 1..(Cardinality(P) + 1) : n \notin Rids(P),
   op |-> op, route |-> route, uid |-> uid, tokens |-> tokens, tok |-> tok,
   stale |-> FALSE]

\* a save of user uid was written: the documents of it held by the other
\* handlers carry an old __v
MarkStale(P, uid) ==
  {IF IsReg(r) THEN r
   ELSE IF r.uid = uid THEN [r EXCEPT !.stale = TRUE] ELSE r : r \in P}

\* POST /register: await user.save() of the new document
RegisterInsert(r, salt) ==
  /\ r \in pending
  /\ IsReg(r)
  /\ IF ~UserSchemaOk(r.name, Lower(r.email), r.password)
       THEN /\ last' = errorHandler("register", "ValidationError")
            /\ pending' = pending \ {r}
            /\ UNCHANGED users
     ELSE IF ~UniqueIndexAllows(Lower(r.email))
       THEN /\ last' = errorHandler("register", "DuplicateKey")
            /\ pending' = pending \ {r}
            /\ UNCHANGED users
     ELSE /\ users' = Append(users, NewUser(r.name, r.email, r.password, salt))
          /\ pending' = (pending \ {r}) \cup
                          {Flight(pending \ {r}, "issue", "register",
                                  Len(users) + 1, <<>>, NullTok)}
          /\ last' = Resp("registerInsert", 0, "")
  /\ UNCHANGED <<tasks, nextTaskId, now, ticks, issued, loggedOut>>

\* POST /login up to the call of generateAuthToken
LoginFind(email, password) ==
  /\ IF LoginResponse(email, password).status # 200
       THEN /\ last' = LoginResponse(email, password)
            /\ UNCHANGED pending
       ELSE /\ Cardinality(pending) < MaxPending
            /\ pending' = pending \cup
                 {Flight(pending, "issue", "login", users[FindByEmail(email)].id,
                         users[FindByEmail(email)].tokens, NullTok)}
            /\ last' = Resp("loginFind", 0, "")
  /\ UNCHANGED <<users, tasks, nextTaskId, now, ticks, issued, loggedOut>>

\* the 2xx status of the handler that called generateAuthToken
IssuedStatus(route) == IF route = "register" THEN 201 ELSE 200

\* generateAuthToken and the response of POST /register or POST /login
IssueSave(q, salt) ==
  /\ q \in pending
  /\ ~IsReg(q)
  /\ q.op = "issue"
  /\ IF q.stale
       THEN /\ last' = errorHandler(q.route, "VersionError")
            /\ pending' = pending \ {q}
            /\ UNCHANGED <<users, issued>>
       ELSE LET doc == [users[q.uid] EXCEPT !.tokens = q.tokens]
                toks == generateAuthToken(doc, now)
            IN /\ Len(q.tokens) < MaxSessions
               /\ users' = [users EXCEPT ![q.uid] = SaveTokens(doc, toks, salt)]
               /\ issued' = issued \cup {toks[Len(toks)]}
               /\ pending' = MarkStale(pending \ {q}, q.uid)
               /\ last' = [Resp(q.route, IssuedStatus(q.route), "") EXCEPT
                             !.tok = toks[Len(toks)], !.uid = q.uid]
  /\ UNCHANGED <<tasks, nextTaskId, now, ticks, loggedOut>>

\* POST /logout: auth, then the handler up to await req.user.save()
LogoutAuth(h) ==
  /\ LET u == authUser(users, h, now) IN
       IF u = 0
         THEN /\ last' = Reject("logout", h)
              /\ UNCHANGED pending
         ELSE /\ Cardinality(pending) < MaxPending
              /\ pending' = pending \cup
                   {Flight(pending, "logout", "logout", u, users[u].tokens, h.tok)}
              /\ last' = [Resp("logoutAuth", 0, "") EXCEPT !.hdr = h, !.uid = u]
  /\ UNCHANGED <<users, tasks, nextTaskId, now, ticks, issued, loggedOut>>

\* POST /logout: req.user.save() and the response
LogoutSave(q, salt) ==
  /\ q \in pending
  /\ ~IsReg(q)
  /\ q.op = "logout"
  /\ IF q.stale
       THEN /\ last' = [errorHandler("logout", "VersionError") EXCEPT
                          !.tok = q.tok, !.uid = q.uid]
            /\ pending' = pending \ {q}
            /\ UNCHANGED <<users, loggedOut>>
       ELSE LET doc == [users[q.uid] EXCEPT !.tokens = q.tokens]
            IN /\ users' = [users EXCEPT ![q.uid] =
                              SaveTokens(doc, FilterTokens(q.tokens, q.tok), salt)]
               /\ loggedOut' = loggedOut \cup {q.tok}
               /\ pending' = MarkStale(pending \ {q}, q.uid)
               /\ last' = [Resp("logout", 200, "") EXCEPT
                             !.tok = q.tok, !.uid = q.uid]
  /\ UNCHANGED <<tasks, nextTaskId, now, ticks, issued>>

-----------------------------------------------------------------------------
(* models/task.js *)

Statuses == {"pending", "in-progress", "completed"}
Priorities == {"low", "medium", "high"}

\* taskSchema.dueDate.validate.validator, new Date() being t
DueDateValidator(value, t) == value > t

\* the schema validators that run on the supplied paths (save() of a new
\* document, or findOneAndUpdate with runValidators), at time t
TaskModelOk(body, t) ==
  /\ IsSome(body.title) => StrLen(Val(body.title)) >= 1
                           /\ StrLen(Val(body.title)) <= MaxTitleLen
  /\ IsSome(body.status) => Val(body.status) \in Statuses
  /\ IsSome(body.priority) => Val(body.priority) \in Priorities
  /\ IsSome(body.dueDate) => DueDateValidator(Val(body.dueDate), t)

\* new Task({ ...value, owner }) built at time t and saved at time t2: the
\* defaults, then the pre('save') hook sets updatedAt
NewTask(id, owner, body, t, t2) ==
  [id |-> id, owner |-> owner, title |-> Val(body.title),
   description |-> body.description,
   status |-> IF IsSome(body.status) THEN Val(body.status) ELSE "pending",
   priority |-> IF IsSome(body.priority) THEN Val(body.priority) ELSE "medium",
   dueDate |-> body.dueDate, createdAt |-> t, updatedAt |-> t2]

\* the document after $set of the supplied fields (findOneAndUpdate runs no
\* save hook and the schema has no timestamps option)
ApplyUpdate(task, body) ==
  [task EXCEPT
     !.title = IF IsSome(body.title) THEN Val(body.title) ELSE @,
     !.description = IF IsSome(body.description) THEN body.description ELSE @,
     !.status = IF IsSome(body.status) THEN Val(body.status) ELSE @,
     !.priority = IF IsSome(body.priority) THEN Val(body.priority) ELSE @,
     !.dueDate = IF IsSome(body.dueDate) THEN body.dueDate ELSE @]

-----------------------------------------------------------------------------
(* routes/tasks.js *)

JoiDueDateOkMut(value, t) == value >= t

\* Joi.date().greater('now'), Date.now() being t
JoiDueDateOk(value, t) == value > t

\* taskSchema.validate (Joi): the first failing key, "" when the body is valid
taskSchema(body, t) ==
  IF ~IsSome(body.title) THEN "title"
  ELSE IF StrLen(Val(body.title)) < 1 \/ StrLen(Val(body.title)) > MaxTitleLen
    THEN "title"
  ELSE IF IsSome(body.status) /\ Val(body.status) \notin Statuses THEN "status"
  ELSE IF IsSome(body.priority) /\ Val(body.priority) \notin Priorities
    THEN "priority"
  ELSE IF IsSome(body.dueDate) /\ ~JoiDueDateOk(Val(body.dueDate), t) THEN "dueDate"
  ELSE ""

MatchingMut(ts, id, uid) == {k \in 1..Len(ts) : ts[k].id = id}

\* positions of the documents matching { _id: id, owner: uid }
Matching(ts, id, uid) == {k \in 1..Len(ts) : ts[k].id = id /\ ts[k].owner = uid}

\* Task.findOne({ _id, owner }): position in the collection, 0 for null
FindOwned(ts, id, uid) ==
  IF Matching(ts, id, uid) = {} THEN 0 ELSE CHOOSE k \in Matching(ts, id, uid) : TRUE

RemoveAt(s, k) == SubSeq(s, 1, k - 1) \o SubSeq(s, k + 1, Len(s))

\* the time a handler spends between two of its steps, in ms
Elapsed == {0, 1}

\* POST /api/tasks
CreateTask(h, body, d) ==
  /\ d = 0 \/ ticks < MaxTicks
  /\ LET u == authUser(users, h, now) IN
       IF u = 0
         THEN /\ last' = Reject("createTask", h)
              /\ UNCHANGED <<tasks, nextTaskId, now, ticks>>
       ELSE IF taskSchema(body, now) # ""
         THEN /\ last' = [Resp("createTask", 400, taskSchema(body, now))
                            EXCEPT !.hdr = h, !.body = body, !.uid = u]
              /\ UNCHANGED <<tasks, nextTaskId, now, ticks>>
       ELSE /\ now' = now + d
            /\ ticks' = ticks + d
            /\ IF ~TaskModelOk(body, now + d)
                 THEN /\ last' = [errorHandler("createTask", "ValidationError")
                                    EXCEPT !.hdr = h, !.body = body, !.uid = u]
                      /\ UNCHANGED <<tasks, nextTaskId>>
                 ELSE /\ nextTaskId < MaxTaskIds
                      /\ nextTaskId' = nextTaskId + 1
                      /\ tasks' = Append(tasks,
                                    NewTask(nextTaskId + 1, u, body, now, now + d))
                      /\ last' = [Resp("createTask", 201, "") EXCEPT
                                    !.hdr = h, !.body = body, !.uid = u, !.id = nextTaskId + 1]
  /\ UNCHANGED <<users, pending, issued, loggedOut>>

\* GET /api/tasks/:id
GetTask(h, id) ==
  /\ LET u == authUser(users, h, now) IN
       last' = IF u = 0 THEN Reject("getTask", h)
               ELSE IF FindOwned(tasks, id, u) = 0
                 THEN [Resp("getTask", 404, "Task not found") EXCEPT
                         !.hdr = h, !.uid = u, !.id = id]
               ELSE [Resp("getTask", 200, "") EXCEPT !.hdr = h, !.uid = u, !.id = id]
  /\ UNCHANGED <<users, tasks, nextTaskId, now, ticks, pending, issued, loggedOut>>

\* PUT /api/tasks/:id
UpdateTask(h, id, body, d) ==
  /\ d = 0 \/ ticks < MaxTicks
  /\ LET u == authUser(users, h, now) IN
       IF u = 0
         THEN /\ last' = Reject("updateTask", h)
              /\ UNCHANGED <<tasks, now, ticks>>
       ELSE IF taskSchema(body, now) # ""
         THEN /\ last' = [Resp("updateTask", 400, taskSchema(body, now))
                            EXCEPT !.hdr = h, !.body = body, !.uid = u, !.id = id]
              /\ UNCHANGED <<tasks, now, ticks>>
       ELSE /\ now' = now + d
            /\ ticks' = ticks + d
            /\ IF ~TaskModelOk(body, now + d)
                 THEN /\ last' = [errorHandler("updateTask", "ValidationError")
                                    EXCEPT !.hdr = h, !.body = body, !.uid = u, !.id = id]
                      /\ UNCHANGED tasks
               ELSE IF FindOwned(tasks, id, u) = 0
                 THEN /\ last' = [Resp("updateTask", 404, "Task not found")
                                    EXCEPT !.hdr = h, !.body = body, !.uid = u, !.id = id]
                      /\ UNCHANGED tasks
               ELSE /\ tasks' = [tasks EXCEPT ![FindOwned(tasks, id, u)] =
                                                ApplyUpdate(@, body)]
                    /\ last' = [Resp("updateTask", 200, "") EXCEPT
                                  !.hdr = h, !.body = body, !.uid = u, !.id = id]
  /\ UNCHANGED <<users, nextTaskId, pending, issued, loggedOut>>

\* DELETE /api/tasks/:id
DeleteTask(h, id) ==
  /\ LET u == authUser(users, h, now) IN
       IF u = 0
         THEN /\ last' = Reject("deleteTask", h)
              /\ UNCHANGED tasks
       ELSE IF FindOwned(tasks, id, u) = 0
         THEN /\ last' = [Resp("deleteTask", 404, "Task not found") EXCEPT
                            !.hdr = h, !.uid = u, !.id = id]
              /\ UNCHANGED tasks
       ELSE /\ tasks' = RemoveAt(tasks, FindOwned(tasks, id, u))
            /\ last' = [Resp("deleteTask", 200, "") EXCEPT !.hdr = h, !.uid = u, !.id = id]
  /\ UNCHANGED <<users, nextTaskId, now, ticks, pending, issued, loggedOut>>

\* the query string of GET /api/tasks; page and limit are decimal numerals
DefaultQuery == [status |-> None, priority |-> None, sortBy |-> "createdAt",
                 sortOrder |-> "desc", page |-> None, limit |-> None]

\* parseInt of a decimal numeral, or of the numeric default
parseInt(o, default) == IF IsSome(o) THEN Val(o) ELSE default

\* the filter { owner, status?, priority? } applied to one document
QueryMatches(task, uid, q) ==
  /\ task.owner = uid
  /\ (IsSome(q.status) /\ Val(q.status) # "") => task.status = Val(q.status)
  /\ (IsSome(q.priority) /\ Val(q.priority) # "") => task.priority = Val(q.priority)

\* the sort key of a document
SortKey(task, sortBy) ==
  IF sortBy = "updatedAt" THEN task.updatedAt ELSE task.createdAt

\* x goes before y under sort[sortBy] = (sortOrder === 'desc' ? -1 : 1)
Before(x, y, q) ==
  IF q.sortOrder = "desc" THEN SortKey(x, q.sortBy) > SortKey(y, q.sortBy)
  ELSE SortKey(x, q.sortBy) < SortKey(y, q.sortBy)

\* x inserted into the sorted sequence s, after the documents it ties with
\* (documents with equal keys keep their natural order)
RECURSIVE InsertSorted(_, _, _)
InsertSorted(x, s, q) ==
  IF s = <<>> THEN <<x>>
  ELSE IF Before(x, s[1], q) THEN <<x>> \o s
  ELSE <<s[1]>> \o InsertSorted(x, Tail(s), q)

\* cursor.sort(sort)
RECURSIVE SortTasks(_, _)
SortTasks(s, q) ==
  IF s = <<>> THEN <<>>
  ELSE InsertSorted(s[Len(s)], SortTasks(SubSeq(s, 1, Len(s) - 1), q), q)

SkipMut(page, limit) == page * limit

\* .skip((parseInt(page) - 1) * parseInt(limit))
Skip(page, limit) == (page - 1) * limit

Min(a, b) == IF a < b THEN a ELSE b

\* Task.find(query).sort(sort).limit(l).skip(k)
FindPage(ts, uid, q) ==
  LET found == SortTasks(SelectSeq(ts, LAMBDA x : QueryMatches(x, uid, q)), q)
      l == parseInt(q.limit, DefaultLimit)
      k == Skip(parseInt(q.page, DefaultPage), l)
  IN SubSeq(found, k + 1, Min(k + l, Len(found)))

\* Task.countDocuments(query)
countDocuments(ts, uid, q) == Len(SelectSeq(ts, LAMBDA x : QueryMatches(x, uid, q)))

\* Math.ceil(total / limit)
Pages(total, limit) == (total + limit - 1) \div limit

\* GET /api/tasks
ListTasks(h, q) ==
  /\ LET u == authUser(users, h, now) IN
       last' = IF u = 0 THEN Reject("listTasks", h)
               ELSE [Resp("listTasks", 200, "") EXCEPT !.hdr = h, !.uid = u] @@
                    [query |-> q,
                     items |-> FindPage(tasks, u, q),
                     page |-> parseInt(q.page, DefaultPage),
                     limit |-> parseInt(q.limit, DefaultLimit),
                     total |-> countDocuments(tasks, u, q),
                     pages |-> Pages(countDocuments(tasks, u, q),
                                     parseInt(q.limit, DefaultLimit))]
  /\ UNCHANGED <<users, tasks, nextTaskId, now, ticks, pending, issued, loggedOut>>

MatchOwnerMut(ts, uid) == ts

\* { $match: { owner: req.user._id } }
MatchOwner(ts, uid) == SelectSeq(ts, LAMBDA x : x.owner = uid)

\* { $group: { _id: '$status', count: { $sum: 1 } } }
GroupByStatus(ts) ==
  {[_id |-> st, count |-> Len(SelectSeq(ts, LAMBDA x : x.status = st))] :
     st \in {ts[k].status : k \in 1..Len(ts)}}

\* stats.forEach(stat => { overview[stat._id] = stat.count;
\*                         overview.total += stat.count })
RECURSIVE BuildOverview(_, _)
BuildOverview(stats, overview) ==
  IF stats = {} THEN overview
  ELSE LET stat == CHOOSE x \in stats : TRUE
           set == (stat._id :> stat.count) @@ overview
       IN BuildOverview(stats \ {stat},
                        ("total" :> set["total"] + stat.count) @@ set)

EmptyOverview ==
  ("total" :> 0) @@ ("pending" :> 0) @@ ("in-progress" :> 0) @@ ("completed" :> 0)

\* GET /api/tasks/stats/overview
StatsOverview(h) ==
  /\ LET u == authUser(users, h, now) IN
       last' = IF u = 0 THEN Reject("stats", h)
               ELSE [Resp("stats", 200, "") EXCEPT !.hdr = h, !.uid = u] @@
                    [stats |-> BuildOverview(GroupByStatus(MatchOwner(tasks, u)),
                                             EmptyOverview)]
  /\ UNCHANGED <<users, tasks, nextTaskId, now, ticks, pending, issued, loggedOut>>

-----------------------------------------------------------------------------
(* The clock *)

Second == MsPerSec
Week == ExpiresInSec * MsPerSec

Tick(d) ==
  /\ ticks < MaxTicks
  /\ now' = now + d
  /\ ticks' = ticks + 1
  /\ last' = Resp("tick", 0, "")
  /\ UNCHANGED <<users, tasks, nextTaskId, pending, issued, loggedOut>>

-----------------------------------------------------------------------------
(* Requests handled one at a time: accounts and sessions *)

Init ==
  /\ users = <<>>
  /\ tasks = <<>>
  /\ nextTaskId = 0
  /\ now = 0
  /\ ticks = 0
  /\ pending = {}
  /\ issued = {}
  /\ loggedOut = {}
  /\ last = Resp("init", 0, "")

Next ==
  \/ \E n \in Names, e \in EmailInputs, p \in RegisterPasswords, s \in Salts :
       Register(n, e, p, s)
  \/ \E e \in EmailInputs, p \in PasswordInputs : Login(e, p)
  \/ \E h \in Headers : Me(h)
  \/ \E h \in Headers : Logout(h)
  \/ \E d \in {Second, Week} : Tick(d)

Spec == Init /\ [][Next]_vars

(* Interleaved register requests *)

NextReg ==
  \/ \E n \in Names, e \in EmailInputs, p \in RegisterPasswords :
       RegisterCheck(n, e, p)
  \/ \E r \in pending, s \in Salts : RegisterSave(r, s)
  \/ \E e \in EmailInputs, p \in PasswordInputs : Login(e, p)

SpecReg == Init /\ [][NextReg]_vars

(* Interleaved register, login and logout requests *)

ConcEmails == {"a@x.com", "A@x.com"}
ConcPasswords == {"secret1", "secret2"}

\* the Authorization headers of the logout requests: an issued token
ConcHeaders == {Bearer(tok) : tok \in issued}

NextConc ==
  \/ \E n \in Names, e \in ConcEmails, p \in RegisterPasswords :
       RegisterCheck(n, e, p)
  \/ \E r \in pending, s \in Salts : RegisterInsert(r, s)
  \/ \E e \in ConcEmails, p \in ConcPasswords : LoginFind(e, p)
  \/ \E q \in pending, s \in Salts : IssueSave(q, s)
  \/ \E h \in ConcHeaders : LogoutAuth(h)
  \/ \E q \in pending, s \in Salts : LogoutSave(q, s)
  \/ Tick(Second)

SpecConc == Init /\ [][NextConc]_vars

(* Requests handled one at a time: the saves of the user records *)

HashPasswords == {"secret1", "secret2"}

NextHash ==
  \/ \E n \in Names, e \in ConcEmails, p \in HashPasswords, s \in Salts :
       Register(n, e, p, s)
  \/ \E e \in ConcEmails, p \in HashPasswords : Login(e, p)
  \/ \E h \in ConcHeaders : Logout(h)
  \/ Tick(Second)

SpecHash == Init /\ [][NextHash]_vars

-----------------------------------------------------------------------------
(* Requests handled one at a time: the task routes, for two registered users *)
(* with one session each                                                     *)

UserA == [id |-> 1, name |-> "Al", email |-> "a@x.com",
          password |-> Hash("secret1", "s1"), role |-> "user", tokens |-> <<>>]
UserB == [id |-> 2, name |-> "Al", email |-> "b@x.com",
          password |-> Hash("secret1", "s1"), role |-> "user", tokens |-> <<>>]

InitTasks ==
  /\ users = <<[UserA EXCEPT !.tokens = generateAuthToken(UserA, 0)],
               [UserB EXCEPT !.tokens = generateAuthToken(UserB, 0)]>>
  /\ tasks = <<>>
  /\ nextTaskId = 0
  /\ now = 0
  /\ ticks = 0
  /\ pending = {}
  /\ issued = {Sign(UserA, 0), Sign(UserB, 0)}
  /\ loggedOut = {}
  /\ last = Resp("init", 0, "")

Body(title, status, priority, dueDate) ==
  [title |-> title, description |-> None, status |-> status,
   priority |-> priority, dueDate |-> dueDate]

\* the request bodies of POST and PUT at time t
TaskBodies(t) ==
  {Body(Some("T"), None, None, None),
   Body(None, Some("completed"), None, None),
   Body(Some("T"), Some("completed"), None, None),
   Body(Some("T"), Some("done"), None, None),
   Body(Some("T"), None, None, Some(t - 1)),
   Body(Some("T"), None, None, Some(t)),
   Body(Some("T"), None, None, Some(t + 1))}

TaskIds == 1..MaxTaskIds

\* the headers of the task requests: none, or an issued token
TaskHeaders == {NoHeader} \cup {Bearer(tok) : tok \in issued}

\* the handler is suspended only where a due date is validated twice
ElapsedFor(b) == IF IsSome(b.dueDate) THEN Elapsed ELSE {0}

NextTasks ==
  \/ \E h \in TaskHeaders, b \in TaskBodies(now), d \in Elapsed :
       d \in ElapsedFor(b) /\ CreateTask(h, b, d)
  \/ \E h \in TaskHeaders, id \in TaskIds : GetTask(h, id)
  \/ \E h \in TaskHeaders, id \in TaskIds, b \in TaskBodies(now), d \in Elapsed :
       d \in ElapsedFor(b) /\ UpdateTask(h, id, b, d)
  \/ \E h \in TaskHeaders, id \in TaskIds : DeleteTask(h, id)
  \/ \E h \in TaskHeaders : ListTasks(h, DefaultQuery)
  \/ \E h \in TaskHeaders : StatsOverview(h)
  \/ Tick(1)

SpecTasks == InitTasks /\ [][NextTasks]_vars

-----------------------------------------------------------------------------
(* Requests handled one at a time while the clock stands still: the two     *)
(* signed-in users create, change, delete and count tasks                   *)

OwnBodies ==
  {Body(Some("T"), None, None, None),
   Body(Some("T"), Some("completed"), None, None),
   Body(Some("T"), None, None, Some(now - 1)),
   Body(Some("T"), None, None, Some(now)),
   Body(Some("T"), None, None, Some(now + 1))}

OwnHeaders == {Bearer(tok) : tok \in issued}

NextOwn ==
  \/ \E h \in OwnHeaders, b \in OwnBodies : CreateTask(h, b, 0)
  \/ \E h \in OwnHeaders, id \in TaskIds, b \in OwnBodies : UpdateTask(h, id, b, 0)
  \/ \E h \in OwnHeaders, id \in TaskIds : DeleteTask(h, id)
  \/ \E h \in OwnHeaders : StatsOverview(h)

SpecOwn == InitTasks /\ [][NextOwn]_vars

-----------------------------------------------------------------------------
(* Requests handled one at a time: every protected route behind auth, with  *)
(* every kind of Authorization header                                        *)

GuardBodies == {Body(Some("T"), None, None, None)}

NextGuard ==
  \/ \E h \in Headers, b \in GuardBodies : CreateTask(h, b, 0)
  \/ \E h \in Headers, id \in TaskIds : GetTask(h, id)
  \/ \E h \in Headers, id \in TaskIds, b \in GuardBodies : UpdateTask(h, id, b, 0)
  \/ \E h \in Headers, id \in TaskIds : DeleteTask(h, id)
  \/ \E h \in Headers : ListTasks(h, DefaultQuery)
  \/ \E h \in Headers : StatsOverview(h)
  \/ \E h \in Headers : Me(h)
  \/ \E h \in Headers : Logout(h)
  \/ Tick(Week)

SpecGuard == InitTasks /\ [][NextGuard]_vars

-----------------------------------------------------------------------------
(* GET /api/tasks applied to collections of up to MaxListTasks tasks that   *)
(* the two users created one per millisecond                                 *)

\* the i-th task: every om-th one belongs to user 2, every sm-th one is
\* completed, every third one has high priority
ListedTask(i, om, sm) ==
  [id |-> i,
   owner |-> IF om > 0 /\ i % om = 0 THEN 2 ELSE 1,
   title |-> "T", description |-> None,
   status |-> IF sm > 0 /\ i % sm = 0 THEN "completed" ELSE "pending",
   priority |-> IF i % 3 = 0 THEN "high" ELSE "medium",
   dueDate |-> None, createdAt |-> i, updatedAt |-> i]

InitList ==
  /\ users = <<[UserA EXCEPT !.tokens = generateAuthToken(UserA, 0)],
               [UserB EXCEPT !.tokens = generateAuthToken(UserB, 0)]>>
  /\ \E n \in 0..MaxListTasks, om \in {0, 2}, sm \in {0, 2} :
       /\ tasks = [i \in 1..n |-> ListedTask(i, om, sm)]
       /\ nextTaskId = n
       /\ now = n + 1
  /\ ticks = 0
  /\ pending = {}
  /\ issued = {Sign(UserA, 0), Sign(UserB, 0)}
  /\ loggedOut = {}
  /\ last = Resp("init", 0, "")

ListQueries ==
  {[status |-> st, priority |-> pr, sortBy |-> "createdAt", sortOrder |-> so,
    page |-> pg, limit |-> lm] :
     st \in {None, Some("completed")}, pr \in {None, Some("high")},
     so \in {"desc", "asc"},
     pg \in {None, Some(1), Some(2), Some(3)}, lm \in {None, Some(1), Some(4), Some(10)}}

\* one request per collection: the route changes nothing in the store
NextList ==
  /\ last.op = "init"
  /\ \E h \in TaskHeaders, q \in ListQueries : ListTasks(h, q)

SpecList == InitList /\ [][NextList]_vars

-----------------------------------------------------------------------------
(* Properties *)

Range(s) == {s[k] : k \in 1..Len(s)}

\* the persistent store: the two collections
store == <<users, tasks>>

\* some user record has this email, case-normalised
Registered(e) == \E i \in 1..Len(users) : users[i].email = Lower(e)

\* what the Access Guard is specified to require of the header, at Date.now()
GuardOk(h) ==
  /\ h.present
  /\ h.kind = "jwt"
  /\ h.tok.sig = "good"
  /\ now < h.tok.exp * MsPerSec
  /\ \E i \in 1..Len(users) : users[i].id = h.tok.uid /\ h.tok \in Range(users[i].tokens)

\* C1: a token returned by a successful register or login is accepted by the
\* guard right after issuance, and no request presenting a token is accepted
\* once a logout with that token has succeeded.
C1_IssuedThenRevoked ==
  /\ (last.op \in {"register", "login"} /\ last.status \in {200, 201})
       => authUser(users, Bearer(last.tok), now) = last.tok.uid
  /\ \A tok \in loggedOut : authUser(users, Bearer(tok), now) = 0

\* C2: a successful logout removes exactly one entry of the user's tokens, the
\* presented one; every other entry (the session of another register/login)
\* stays and is still accepted by the guard, and no other user record changes.
C2_LogoutRemovesOne ==
  [][(last'.op = "logout" /\ last'.status = 200) =>
       LET u == last'.uid
           tok == last'.tok
           before == users[u].tokens
       IN /\ \E k \in 1..Len(before) :
               /\ before[k] = tok
               /\ users'[u].tokens = RemoveAt(before, k)
               /\ \A m \in (1..Len(before)) \ {k} :
                    now' < before[m].exp * MsPerSec
                      => authUser(users', Bearer(before[m]), now') = u
          /\ \A i \in (1..Len(users)) \ {u} : users'[i] = users[i]
          /\ Len(users') = Len(users)]_vars

\* C4: no two user records share a lowercased email, and a register request for
\* a registered email answers 400 and creates no user, whether the handler's
\* lookup or, between interleaved requests, the unique index finds the record.
C4_UniqueEmail ==
  /\ [](\A i, j \in 1..Len(users) :
          /\ users[i].email = Lower(users[i].email)
          /\ i # j => users[i].email # users[j].email)
  /\ [][/\ \A n \in Names, e \in EmailInputs, p \in RegisterPasswords :
             (RegisterCheck(n, e, p) /\ Registered(e)) =>
               /\ last'.op = "register" /\ last'.status = 400
               /\ registerSchema(n, e, p) = ""
                    => last'.error = "User already exists with this email"
               /\ users' = users /\ pending' = pending
        /\ \A r \in pending, s \in Salts :
             (RegisterSave(r, s) /\ Registered(r.email)) =>
               /\ last'.op = "register" /\ last'.status = 400
               /\ last'.error = "DuplicateEmail"
               /\ users' = users]_vars

\* C4 witness: of two interleaved registrations of one email, the second was
\* stopped by the unique index and the first is stored.
C4_Witness ==
  /\ last.op = "register" /\ last.error = "DuplicateEmail"
  /\ Len(users) = 1

ProtectedOps == {"me", "logout", "createTask", "getTask", "updateTask",
                 "deleteTask", "listTasks", "stats"}

\* C5: auth calls the handler of a protected route only when the header
\* carries a present, correctly signed, unexpired token listed in the tokens
\* of the user its claims name; otherwise the response is 401, the handler
\* does not run and the store is unchanged.
C5_GuardGate ==
  [][last'.op \in ProtectedOps =>
       IF GuardOk(last'.hdr)
         THEN last'.handled /\ last'.status # 401 /\ last'.uid = last'.hdr.tok.uid
         ELSE last'.status = 401 /\ ~last'.handled /\ store' = store]_vars

\* C5 witness: a delete presenting an expired token that is still listed was
\* refused, and the task of that user is still stored.
C5_Witness ==
  /\ last.status = 401 /\ ~last.handled /\ last.op = "deleteTask"
  /\ last.hdr.kind = "jwt" /\ last.hdr.tok.sig = "good"
  /\ \E i \in 1..Len(users) : last.hdr.tok \in Range(users[i].tokens)
  /\ \E k \in 1..Len(tasks) : tasks[k].owner = last.hdr.tok.uid

\* the password does not match the one the email was registered with
WrongPassword(e, p) ==
  \E i \in 1..Len(users) : users[i].email = Lower(e) /\ users[i].password.pw # p

\* C6: a login with a registered email and a wrong password and a login with
\* an unregistered email get the same response, 401 "Invalid credentials",
\* and a login that is refused changes nothing in the store (the email is
\* well formed and a password is supplied).
C6_UniformLoginFailure ==
  /\ [](\A e1, e2 \in EmailInputs, p1, p2 \in PasswordInputs :
          (/\ JoiEmailOk(e1) /\ JoiEmailOk(e2) /\ p1 # "" /\ p2 # ""
           /\ WrongPassword(e1, p1) /\ ~Registered(e2)) =>
            /\ LoginResponse(e1, p1) = LoginResponse(e2, p2)
            /\ LoginResponse(e1, p1).status = 401
            /\ LoginResponse(e1, p1).error = "Invalid credentials")
  /\ [][(last'.op = "login" /\ last'.status = 401) =>
          store' = store /\ issued' = issued]_vars

\* C6 witness: a login was refused with 401 while a user is registered.
C6_Witness ==
  /\ last = Resp("login", 401, "Invalid credentials")
  /\ Len(users) > 0

\* the task with this _id in a collection
TaskById(ts, id) == ts[CHOOSE k \in 1..Len(ts) : ts[k].id = id]

\* the request names a task that exists and belongs to another user
Foreign(ts, id, uid) == \E k \in 1..Len(ts) : ts[k].id = id /\ ts[k].owner # uid

Owned(ts, uid) == {k \in 1..Len(ts) : ts[k].owner = uid}

JoiKeys == {"title", "description", "status", "priority", "dueDate"}

\* C3 as stated: for a task of user A, user B's get, update and delete by its
\* id all answer 404 and leave the collection as it was; list and stats of B
\* hold and count only B's tasks.
C3_Original ==
  [][/\ (/\ last'.op \in {"getTask", "updateTask", "deleteTask"}
         /\ last'.handled
         /\ Foreign(tasks, last'.id, last'.uid)) =>
          last'.status = 404 /\ tasks' = tasks
     /\ (last'.op = "listTasks" /\ last'.status = 200) =>
          \A k \in 1..Len(last'.items) : last'.items[k].owner = last'.uid
     /\ (last'.op = "stats" /\ last'.status = 200) =>
          last'.stats["total"] = Cardinality(Owned(tasks, last'.uid))]_vars

\* C3 amended: B's get and delete answer 404; B's update answers 404 when its
\* body passes validation, 400 when the request validation refuses the body
\* (it runs before the owner-scoped lookup), and is never applied when only
\* the schema validator refuses it; in every case the collection is
\* unchanged; list and stats of B hold and count only B's tasks.
C3_CrossOwner ==
  [][/\ (/\ last'.op \in {"getTask", "deleteTask"}
         /\ last'.handled
         /\ Foreign(tasks, last'.id, last'.uid)) =>
          last'.status = 404 /\ tasks' = tasks
     /\ (/\ last'.op = "updateTask"
         /\ last'.handled
         /\ Foreign(tasks, last'.id, last'.uid)) =>
          /\ tasks' = tasks
          /\ IF taskSchema(last'.body, now) # ""
               THEN last'.status = 400 /\ last'.error \in JoiKeys
             ELSE IF TaskModelOk(last'.body, now') THEN last'.status = 404
             ELSE last'.status \notin {200, 404}
     /\ (last'.op = "listTasks" /\ last'.status = 200) =>
          \A k \in 1..Len(last'.items) : last'.items[k].owner = last'.uid
     /\ (last'.op = "stats" /\ last'.status = 200) =>
          last'.stats["total"] = Cardinality(Owned(tasks, last'.uid))]_vars

\* C3 witness: user B's update of A's task with a valid body was answered 404
\* and the task is still stored.
C3_Witness ==
  /\ last.op = "updateTask" /\ last.status = 404
  /\ Foreign(tasks, last.id, last.uid)

\* C7: after a successful PUT of a task by its owner, made later than the
\* task's last write, the stored updatedAt is strictly later than before.
C7_UpdatedAtRefreshed ==
  [][(/\ last'.op = "updateTask" /\ last'.status = 200
      /\ now' > TaskById(tasks, last'.id).updatedAt) =>
       TaskById(tasks', last'.id).updatedAt > TaskById(tasks, last'.id).updatedAt]_vars

\* C8: a create or update whose dueDate is not strictly after the time of the
\* request is answered 400 by the handler's own validation and the collection
\* is unchanged: no task is added and the targeted task keeps its fields.
C8_PastDueDateRejected ==
  [][(/\ last'.op \in {"createTask", "updateTask"}
      /\ last'.handled
      /\ IsSome(last'.body.dueDate)
      /\ Val(last'.body.dueDate) <= now) =>
       /\ last'.status = 400
       /\ last'.error \in JoiKeys
       /\ tasks' = tasks
       /\ nextTaskId' = nextTaskId]_vars

\* C8 witness: an update by the owner with dueDate equal to the request time
\* was answered 400 and the task is stored.
C8_Witness ==
  /\ last.op = "updateTask" /\ last.status = 400 /\ last.error = "dueDate"
  /\ IsSome(last.body.dueDate) /\ Val(last.body.dueDate) = now
  /\ \E k \in 1..Len(tasks) : tasks[k].id = last.id /\ tasks[k].owner = last.uid

\* C10: the stats response has exactly the keys total, pending, in-progress
\* and completed; each status key is the number of the caller's own tasks in
\* that status, and total is their sum and the number of tasks the caller owns.
C10_StatsCounts ==
  (last.op = "stats" /\ last.status = 200) =>
    /\ DOMAIN last.stats = {"total"} \cup Statuses
    /\ \A st \in Statuses :
         last.stats[st] =
           Cardinality({k \in Owned(tasks, last.uid) : tasks[k].status = st})
    /\ last.stats["total"] =
         last.stats["pending"] + last.stats["in-progress"] + last.stats["completed"]
    /\ last.stats["total"] = Cardinality(Owned(tasks, last.uid))

\* C10 witness: stats of a user who owns one task, with a status that none of
\* the user's tasks has, while the other user owns a task too.
C10_Witness ==
  /\ last.op = "stats" /\ last.status = 200
  /\ last.stats["total"] = 1 /\ last.stats["in-progress"] = 0
  /\ last.stats["completed"] = 1
  /\ Len(tasks) = 2

\* the caller's tasks that match the status/priority filters of the query
MatchingFilters(ts, uid, q) ==
  {k \in 1..Len(ts) :
     /\ ts[k].owner = uid
     /\ IsSome(q.status) => ts[k].status = Val(q.status)
     /\ IsSome(q.priority) => ts[k].priority = Val(q.priority)}

Max(a, b) == IF a > b THEN a ELSE b

\* C9: for an owner with n tasks matching the filters, the list response for
\* page p and limit l holds exactly min(l, max(0, n - (p-1)*l)) items, all the
\* caller's and matching the filters, total = n and pages = ceil(n / l); page
\* and limit default to 1 and 10.
C9_Pagination ==
  (last.op = "listTasks" /\ last.status = 200) =>
    LET q == last.query
        n == Cardinality(MatchingFilters(tasks, last.uid, q))
        p == IF IsSome(q.page) THEN Val(q.page) ELSE 1
        l == IF IsSome(q.limit) THEN Val(q.limit) ELSE 10
    IN /\ last.page = p /\ last.limit = l
       /\ Len(last.items) = Min(l, Max(0, n - (p - 1) * l))
       /\ \A k \in 1..Len(last.items) :
            \E m \in MatchingFilters(tasks, last.uid, q) : tasks[m] = last.items[k]
       /\ \A j, k \in 1..Len(last.items) : j # k => last.items[j] # last.items[k]
       /\ last.total = n
       /\ last.pages * l >= n /\ (last.pages - 1) * l < n /\ last.pages >= 0

\* C9 witness: 15 tasks of the caller, page 2 with limit 10: 5 items, 2 pages.
C9_Witness ==
  /\ last.op = "listTasks" /\ last.status = 200
  /\ last.query.page = Some(2) /\ last.query.limit = Some(10)
  /\ last.total = 15 /\ Len(last.items) = 5 /\ last.pages = 2

\* the response reports a failure
Failure(r) == r.status \in {400, 401, 404} \/ r.status >= 500

\* C11: a request that answers a failure (400, 401, 404, 5xx) leaves the
\* users and tasks collections as they were, and a register request that
\* answers anything but 201 leaves no user record of its own behind.
C11_NoPartialWrite ==
  [][/\ Failure(last') => store' = store
     /\ \A q \in pending :
          (/\ ~IsReg(q)
           /\ q.route = "register"
           /\ q \notin pending'
           /\ last'.op = "register"
           /\ last'.status # 201) => Len(users') < q.uid]_vars

\* C12: the stored password is the hash of the plaintext of the register
\* request, made once by the save that inserts the user; no later save (the
\* one of token issuance in register and login, the one of logout) changes
\* it, so a login with the registered password is answered 200 in every
\* state.
C12_HashStable ==
  /\ [](\A i \in 1..Len(users) :
         /\ users[i].password.salt \in Salts
         /\ \E p \in HashPasswords :
              LoginResponse(users[i].email, p).status = 200)
  /\ [][/\ \A i \in 1..Len(users) : users'[i].password = users[i].password
        /\ Len(users') > Len(users) =>
             \E n \in Names, e \in ConcEmails, p \in HashPasswords, s \in Salts :
               /\ Register(n, e, p, s)
               /\ users'[Len(users')].password = Hash(p, s)
               /\ comparePassword(users'[Len(users')], p)]_vars

\* C12 witness: a login answered 200 for a user registered with the second
\* password, after one of the user's sessions was logged out and while
\* another is still stored.
C12_Witness ==
  /\ last.op = "login" /\ last.status = 200
  /\ users[last.tok.uid].password = Hash("secret2", "s1")
  /\ \E tok \in loggedOut : tok.uid = last.tok.uid /\ tok # last.tok
  /\ Len(users[last.tok.uid].tokens) = 2

\* C13: once no register, login or logout request is in flight, every token
\* returned by a 2xx register or login response and not logged out is stored
\* and accepted by auth, and every token whose logout answered 200 is not
\* stored and is refused by auth.
C13_SessionsKept ==
  pending = {} =>
    /\ \A tok \in issued \ loggedOut : authUser(users, Bearer(tok), now) = tok.uid
    /\ \A tok \in loggedOut : authUser(users, Bearer(tok), now) = 0

====
